---- MODULE Spec2Model ----
(***************************************************************************)
(* Row-selector normalization of datatable's DataTable                     *)
(* (datatable/dt.py, DataTable._rows_selector).                            *)
(*                                                                         *)
(* One behaviour is one table (nrows) and one selector object (rows) on    *)
(* which _rows_selector is invoked.  The loop over a collection selector   *)
(* is modelled one iteration per step, so that the accumulators bases,     *)
(* counts and strides are visible between iterations.                      *)
(***************************************************************************)
EXTENDS Integers, Sequences, FiniteSets

\* ------------------------------------------------------------------ bounds
MaxRows == 3
MaxLen == 3

\* ------------------------------------------------------------------ values
\* A bound of a slice or range: an int, None, or a non-integer (e.g. 1.5).
IntV(n) == [k |-> "int", v |-> n]
None == [k |-> "none", v |-> 0]
NonInt == [k |-> "float", v |-> 0]

IntElem(n) == [t |-> "int", a |-> IntV(n), b |-> None, c |-> None]
SliceElem(a, b, c) == [t |-> "slice", a |-> a, b |-> b, c |-> c]
RangeElem(a, b, c) == [t |-> "range", a |-> IntV(a), b |-> IntV(b), c |-> IntV(c)]
OtherElem == [t |-> "other", a |-> None, b |-> None, c |-> None]

Min(x, y) == IF x < y THEN x ELSE y
Max(x, y) == IF x > y THEN x ELSE y

\* ------------------------------------------------------------------ inputs
BoundVals == -(MaxRows + 1) .. (MaxRows + 1)
StepVals == {-2, -1, 1, 2}

\* Elements used alone (a scalar selector, wrapped into a one-element list).
ScalarElems ==
    {IntElem(n) : n \in BoundVals}
    \cup {SliceElem(a, b, c) :
            a \in {None} \cup {IntV(n) : n \in BoundVals},
            b \in {None} \cup {IntV(n) : n \in BoundVals},
            c \in {None, IntV(0)} \cup {IntV(n) : n \in StepVals}}
    \cup {SliceElem(NonInt, None, None), SliceElem(None, NonInt, IntV(0)),
          SliceElem(None, None, NonInt)}
    \cup {RangeElem(a, b, c) : a \in BoundVals, b \in BoundVals, c \in StepVals}

\* Elements used inside collections of up to MaxLen elements.
ListElems ==
    { IntElem(-1), IntElem(0), IntElem(2),
      SliceElem(None, None, None),
      SliceElem(None, None, IntV(-1)),
      SliceElem(IntV(0), IntV(1), None),
      SliceElem(IntV(1), IntV(1), None),
      SliceElem(None, NonInt, IntV(0)),
      SliceElem(NonInt, None, None),
      RangeElem(0, 2, 1),
      RangeElem(1, 1, 1),
      OtherElem }

SeqsUpTo(S, m) == UNION {[1 .. k -> S] : k \in 0 .. m}

NoTable == [ncols |-> 0, type |-> "none", nrows |-> 0]
Tables ==
    {[ncols |-> 0, type |-> "none", nrows |-> r] : r \in 0 .. MaxRows}
    \cup {[ncols |-> nc, type |-> ty, nrows |-> r] :
            nc \in 1 .. 2, ty \in {"bool", "int"}, r \in 0 .. MaxRows}

Selector(kind, ret, items, tbl) ==
    [kind |-> kind, ret |-> ret, items |-> items, tbl |-> tbl]

\* What a callable selector may return (its result is normalized with
\* nested = True).
FunctionResults ==
    {Selector("function", r, <<>>, NoTable) :
        r \in {"ellipsis", "function", "expr", "other"}}
    \cup {Selector("function", "list", <<e>>, NoTable) : e \in ListElems}
    \cup {Selector("function", "table", <<>>, t) : t \in Tables}

Selectors ==
    {Selector(k, "", <<>>, NoTable) : k \in {"ellipsis", "expr", "other"}}
    \cup {Selector("elem", "", <<e>>, NoTable) : e \in ScalarElems}
    \cup {Selector(k, "", s, NoTable) :
            k \in {"list", "generator"}, s \in SeqsUpTo(ListElems, MaxLen)}
    \cup {Selector("table", "", <<>>, t) : t \in Tables}
    \cup FunctionResults

\* ------------------------------------------------------------------ results
\* The value a call returns: a RowMapping made by one of the engine's
\* constructors, or the error it raised (err names the raise site, at the
\* position of the offending element).
Result(kind, b, c, s, err, at) ==
    [kind |-> kind, bases |-> b, counts |-> c, strides |-> s, err |-> err, at |-> at]

NoResult == Result("none", <<>>, <<>>, <<>>, "", 0)

rowmapping_from_array(b) == Result("Array", b, <<>>, <<>>, "", 0)

rowmapping_from_slice(start, count, step) ==
    Result("Slice", <<start>>, <<count>>, <<step>>, "", 0)

rowmapping_from_slicelist(b, c, s) == Result("SliceList", b, c, s, "", 0)

rowmapping_from_column == Result("Mask", <<>>, <<>>, <<>>, "", 0)

select_by_expression == Result("Expr", <<>>, <<>>, <<>>, "", 0)

Raise(class, site, at) == Result(class, <<>>, <<>>, <<>>, site, at)

IsError(r) == r.kind \in {"ValueError", "TypeError"}

\* ------------------------------------------------------------------ canonicalizer
Canonical(ok, start, count, step) ==
    [ok |-> ok, start |-> start, count |-> count, step |-> step]

StepOf(e) == IF e.c.k = "none" THEN 1 ELSE e.c.v

\* Number of terms of start, start+step, ... strictly before stop.
ProgressionLen(start, stop, step) ==
    IF step > 0
    THEN IF stop > start THEN (stop - start - 1) \div step + 1 ELSE 0
    ELSE IF start > stop THEN (start - stop - 1) \div (-step) + 1 ELSE 0

\* The host language's slice clamping: omitted bounds take the end of the
\* direction of travel, negative bounds count from the end, and out-of-range
\* bounds are clamped.
SliceIndices(e, n) ==
    LET step == StepOf(e)
        lower == IF step < 0 THEN -1 ELSE 0
        upper == IF step < 0 THEN n - 1 ELSE n
        Clamp(x) == IF x < 0 THEN Max(x + n, lower) ELSE Min(x, upper)
        start == IF e.a.k = "none"
                 THEN (IF step < 0 THEN upper ELSE lower) ELSE Clamp(e.a.v)
        stop == IF e.b.k = "none"
                THEN (IF step < 0 THEN lower ELSE upper) ELSE Clamp(e.b.v)
    IN  [start |-> start, stop |-> stop, step |-> step]

normalize_slice(e, n) ==
    LET ix == SliceIndices(e, n)
        count == ProgressionLen(ix.start, ix.stop, ix.step)
    IN  IF count = 0 THEN Canonical(TRUE, 0, 0, ix.step)
        ELSE Canonical(TRUE, ix.start, count, ix.step)

\* A range has the meaning of the list it expands into: it is rejected when
\* an index it produces falls outside [0, n).
normalize_range(e, n) ==
    LET start == e.a.v
        step == e.c.v
        count == ProgressionLen(start, e.b.v, step)
        last == start + (count - 1) * step
    IN  IF count = 0 THEN Canonical(TRUE, 0, 0, step)
        ELSE IF start < 0 \/ start >= n \/ last < 0 \/ last >= n
             THEN Canonical(FALSE, 0, 0, step)
             ELSE Canonical(TRUE, start, count, step)

\* ------------------------------------------------------------------ the loop body
Acc(b, c, s) == [bases |-> b, counts |-> c, strides |-> s]

Ones(k) == [j \in 1 .. k |-> 1]

\* Mutant: a range canonicalized as if it were a slice.
Canonicalize_AsSlice(elem, n) == normalize_slice(elem, n)

\* dt.py 323-330: a range goes to normalize_range, a slice to normalize_slice.
Canonicalize(elem, n) ==
    IF elem.t = "range" THEN normalize_range(elem, n) ELSE normalize_slice(elem, n)

\* dt.py 310-313
IntOutOfRange(v, n) == v < -n \/ v >= n

\* dt.py 314-316
AppendInt(acc, v, n) ==
    Acc(Append(acc.bases, IF v < 0 THEN v + n ELSE v), acc.counts, acc.strides)

\* Mutant: the integer check made before the zero-step check.
BoundsError_IntegerCheckFirst(elem, at) ==
    IF elem.a.k = "float" \/ elem.b.k = "float" \/ elem.c.k = "float"
    THEN Raise("ValueError", "not_integer", at)
    ELSE IF elem.c.k = "int" /\ elem.c.v = 0
         THEN Raise("ValueError", "step_zero", at)
         ELSE NoResult

\* dt.py 318-322: the checks made on a slice or range before it is
\* canonicalized, in the order the code makes them.
BoundsError(elem, at) ==
    IF elem.c.k = "int" /\ elem.c.v = 0
    THEN Raise("ValueError", "step_zero", at)
    ELSE IF elem.a.k = "float" \/ elem.b.k = "float" \/ elem.c.k = "float"
         THEN Raise("ValueError", "not_integer", at)
         ELSE NoResult

\* Mutant: no backfill of counts and strides for the scalars seen so far.
AppendCanonical_NoBackfill(acc, start, count, step) ==
    IF count = 0 THEN acc
    ELSE IF count = 1 THEN Acc(Append(acc.bases, start), acc.counts, acc.strides)
    ELSE Acc(Append(acc.bases, start),
             Append(acc.counts, count),
             Append(acc.strides, step))

\* Mutant: an empty slice or range handled like one of count 1.
AppendCanonical_KeepsEmpty(acc, start, count, step) ==
    IF count <= 1 THEN Acc(Append(acc.bases, start), acc.counts, acc.strides)
    ELSE LET k == Len(acc.bases) - Len(acc.counts)
         IN  Acc(Append(acc.bases, start),
                 Append(acc.counts \o Ones(k), count),
                 Append(acc.strides \o Ones(k), step))

\* dt.py 331-343
AppendCanonical(acc, start, count, step) ==
    IF count = 0 THEN acc
    ELSE IF count = 1 THEN Acc(Append(acc.bases, start), acc.counts, acc.strides)
    ELSE LET padded ==
                 IF Len(acc.counts) < Len(acc.bases)
                 THEN Acc(acc.bases,
                          acc.counts \o Ones(Len(acc.bases) - Len(acc.counts)),
                          acc.strides \o Ones(Len(acc.bases) - Len(acc.strides)))
                 ELSE acc
         IN  Acc(Append(padded.bases, start),
                 Append(padded.counts, count),
                 Append(padded.strides, step))

\* dt.py 344-350
UnknownElemError(gen, at) ==
    IF gen THEN Raise("TypeError", "generated_at_position", at)
    ELSE Raise("TypeError", "element_of_rows_list", at)

\* Mutant: the None that normalize_range returns is not checked.
ElemError_AcceptsAnyRange(elem, n, gen, at) ==
    IF elem.t = "int"
    THEN IF IntOutOfRange(elem.a.v, n)
         THEN Raise("ValueError", "row_invalid", at) ELSE NoResult
    ELSE IF elem.t \in {"range", "slice"} THEN BoundsError(elem, at)
    ELSE UnknownElemError(gen, at)

\* dt.py 308-350: the error element number `at` raises, NoResult if none.
ElemError(elem, n, gen, at) ==
    IF elem.t = "int"
    THEN IF IntOutOfRange(elem.a.v, n)
         THEN Raise("ValueError", "row_invalid", at) ELSE NoResult
    ELSE IF elem.t \in {"range", "slice"}
    THEN IF BoundsError(elem, at) # NoResult THEN BoundsError(elem, at)
         ELSE IF ~Canonicalize(elem, n).ok
              THEN Raise("ValueError", "invalid_range", at)
              ELSE NoResult
    ELSE UnknownElemError(gen, at)

\* dt.py 308-343: the accumulators after a valid element.
ElemAppend(acc, elem, n) ==
    IF elem.t = "int" THEN AppendInt(acc, elem.a.v, n)
    ELSE LET res == Canonicalize(elem, n)
         IN  AppendCanonical(acc, res.start, res.count, res.step)

\* Mutant: a single progression is not recognized.
Compact_NoSlice(b, c, s) ==
    IF Len(c) = 0 THEN rowmapping_from_array(b)
    ELSE rowmapping_from_slicelist(b, c, s)

\* Mutant: a selection without progressions is not recognized.
Compact_NoArray(b, c, s) ==
    IF Len(b) = 1 /\ Len(c) = 1 THEN rowmapping_from_slice(b[1], c[1], s[1])
    ELSE rowmapping_from_slicelist(b, c, s)

\* dt.py 351-356
Compact(b, c, s) ==
    IF Len(c) = 0 THEN rowmapping_from_array(b)
    ELSE IF Len(b) = 1 THEN rowmapping_from_slice(b[1], c[1], s[1])
    ELSE rowmapping_from_slicelist(b, c, s)

\* Mutant: the column type is not checked.
MaskSelector_NoTypeCheck(tbl, n) ==
    IF tbl.ncols # 1 THEN Raise("ValueError", "single_column", 0)
    ELSE IF tbl.nrows # n THEN Raise("ValueError", "row_count", 0)
    ELSE rowmapping_from_column

\* dt.py 358-371
MaskSelector(tbl, n) ==
    IF tbl.ncols # 1 THEN Raise("ValueError", "single_column", 0)
    ELSE IF tbl.type # "bool" THEN Raise("TypeError", "boolean_column", 0)
    ELSE IF tbl.nrows # n THEN Raise("ValueError", "row_count", 0)
    ELSE rowmapping_from_column

\* dt.py 377-384
Fallthrough(kind, isNested) ==
    IF kind = "expr" THEN select_by_expression
    ELSE IF isNested THEN Raise("TypeError", "unexpected_function_result", 0)
    ELSE Raise("TypeError", "unexpected_rows_argument", 0)

\* ------------------------------------------------------------------ state
VARIABLES
    nrows,           \* self._nrows
    rows,            \* the selector object the caller passes
    pc,              \* "idle" | "walk" | "done"
    arg,             \* the materialized collection being walked
    from_generator,
    nested,
    i,               \* elements of arg already processed
    bases, counts, strides,
    result,          \* what the call returned or raised
    calls,           \* invocations made on this selector object
    previous         \* result of the invocation before the current one

vars == <<nrows, rows, pc, arg, from_generator, nested, i, bases, counts,
          strides, result, calls, previous>>

Init ==
    /\ nrows \in 0 .. MaxRows
    /\ rows \in Selectors
    /\ pc = "idle"
    /\ arg = <<>>
    /\ from_generator = FALSE
    /\ nested = FALSE
    /\ i = 0
    /\ bases = <<>>
    /\ counts = <<>>
    /\ strides = <<>>
    /\ result = NoResult
    /\ calls = 0
    /\ previous = NoResult

\* Mutant: the accumulators outlive the call.
Accumulators_Shared == UNCHANGED <<bases, counts, strides>>

\* dt.py 305-307: every call starts from empty accumulators of its own.
Accumulators_Fresh ==
    /\ bases' = <<>>
    /\ counts' = <<>>
    /\ strides' = <<>>

\* dt.py 290-307 and 358-384: everything _rows_selector does outside the
\* loop.  A callable is invoked and its result normalized with nested = True
\* (373-375); draining a generator (301) empties the generator object.
Enter ==
    LET isNested == rows.kind = "function"
        kind == IF isNested THEN rows.ret ELSE rows.kind
    IN  /\ nested' = isNested
        /\ calls' = calls + 1
        /\ previous' = result
        /\ i' = 0
        /\ Accumulators_Fresh
        /\ nrows' = nrows
        /\ IF kind \in {"elem", "list", "generator"}
           THEN /\ arg' = rows.items
                /\ from_generator' = (kind = "generator")
                /\ rows' = IF kind = "generator"
                           THEN [rows EXCEPT !.items = <<>>] ELSE rows
                /\ pc' = "walk"
                /\ result' = NoResult
           ELSE /\ arg' = <<>>
                /\ from_generator' = FALSE
                /\ rows' = rows
                /\ pc' = "done"
                /\ result' = IF kind = "ellipsis"
                             THEN rowmapping_from_slice(0, nrows, 1)
                             ELSE IF kind = "table"
                             THEN MaskSelector(rows.tbl, nrows)
                             ELSE Fallthrough(kind, isNested)

Call ==
    /\ pc = "idle"
    /\ Enter

\* dt.py 308-350: one iteration of the loop.
Walk ==
    /\ pc = "walk"
    /\ i < Len(arg)
    /\ LET elem == arg[i + 1]
           err == ElemError(elem, nrows, from_generator, i)
           acc == ElemAppend(Acc(bases, counts, strides), elem, nrows)
       IN  IF err # NoResult
           THEN /\ result' = err
                /\ pc' = "done"
                /\ UNCHANGED <<i, bases, counts, strides>>
           ELSE /\ bases' = acc.bases
                /\ counts' = acc.counts
                /\ strides' = acc.strides
                /\ i' = i + 1
                /\ UNCHANGED <<result, pc>>
    /\ UNCHANGED <<nrows, rows, arg, from_generator, nested, calls, previous>>

\* dt.py 351-356: the loop is over; choose the RowMapping.
Finish ==
    /\ pc = "walk"
    /\ i = Len(arg)
    /\ result' = Compact(bases, counts, strides)
    /\ pc' = "done"
    /\ UNCHANGED <<nrows, rows, arg, from_generator, nested, i, bases, counts,
                   strides, calls, previous>>

\* The caller invokes _rows_selector once more with the same selector object.
CallAgain ==
    /\ pc = "done"
    /\ calls = 1
    /\ Enter

Next == Call \/ Walk \/ Finish

Spec == Init /\ [][Next]_vars

NextTwice == Call \/ Walk \/ Finish \/ CallAgain

SpecTwice == Init /\ [][NextTwice]_vars

\* ------------------------------------------------------------------ properties
\* A call has returned or raised.
Done == pc = "done"

InRange(e) == e.t = "int" /\ -nrows <= e.a.v /\ e.a.v < nrows

\* A negative in-range integer e denotes row e + nrows.
RowOf(e) == (e.a.v + nrows) % nrows

IntegerBounds(e) ==
    /\ e.a.k \in {"int", "none"}
    /\ e.b.k \in {"int", "none"}
    /\ e.c.k \in {"int", "none"}

ValidSlice(e) == e.t = "slice" /\ IntegerBounds(e) /\ StepOf(e) # 0

\* The rows a slice selects out of 0 .. nrows-1 under the host language's
\* clamped slice semantics.
SliceRows(e) ==
    LET ix == SliceIndices(e, nrows)
    IN  {p \in 0 .. nrows - 1 :
            IF ix.step > 0
            THEN p >= ix.start /\ p < ix.stop /\ (p - ix.start) % ix.step = 0
            ELSE p <= ix.start /\ p > ix.stop /\ (ix.start - p) % (-ix.step) = 0}

\* The indices the list a range expands into holds.
RangeRows(e) ==
    LET a == e.a.v
        b == e.b.v
        st == e.c.v
    IN  {x \in Min(a, b) .. Max(a, b) :
            IF st > 0
            THEN x >= a /\ x < b /\ (x - a) % st = 0
            ELSE x <= a /\ x > b /\ (a - x) % (-st) = 0}

FirstRow(S, step) ==
    IF step > 0 THEN CHOOSE x \in S : \A y \in S : x <= y
    ELSE CHOOSE x \in S : \A y \in S : x >= y

\* The RowMapping of a single progression of rows S walked with `step`.
SingleRun(S, step) ==
    IF S = {} THEN rowmapping_from_array(<<>>)
    ELSE IF Cardinality(S) = 1 THEN rowmapping_from_array(<<FirstRow(S, step)>>)
    ELSE rowmapping_from_slice(FirstRow(S, step), Cardinality(S), step)

\* Number of rows element e contributes (valid elements only).
CountOf(e) ==
    IF e.t = "int" THEN 1
    ELSE IF e.t = "slice" THEN Cardinality(SliceRows(e))
    ELSE Cardinality(RangeRows(e))

IsIntElem(e) == e.t = "int"

\* The walked collection is k >= 1 in-range integers, then one valid slice
\* selecting more than one row.
C1_Shape ==
    /\ Len(arg) >= 2
    /\ \A j \in 1 .. Len(arg) - 1 : InRange(arg[j])
    /\ ValidSlice(arg[Len(arg)])
    /\ Cardinality(SliceRows(arg[Len(arg)])) > 1

\* C1: k >= 1 in-range integers followed by one slice of count > 1 give
\* SliceList(bases = the k normalized integers then the slice start,
\* counts = k ones then the slice count, steps = k ones then the slice step).
C1_ScalarsThenSlice ==
    (Done /\ C1_Shape) =>
        LET k == Len(arg) - 1
            s == arg[Len(arg)]
            run == SingleRun(SliceRows(s), StepOf(s))
        IN  result = rowmapping_from_slicelist(
                [j \in 1 .. k + 1 |-> IF j <= k THEN RowOf(arg[j]) ELSE run.bases[1]],
                [j \in 1 .. k + 1 |-> IF j <= k THEN 1 ELSE run.counts[1]],
                [j \in 1 .. k + 1 |-> IF j <= k THEN 1 ELSE run.strides[1]])

C1_Witness ==
    /\ Done
    /\ C1_Shape
    /\ Len(arg) = 3
    /\ arg[1].a.v = -1
    /\ StepOf(arg[3]) = -1
    /\ result.kind = "SliceList"
    /\ result.counts = <<1, 1, 3>>

\* C2: after every element the accumulators satisfy len(counts) =
\* len(strides) and len(counts) is 0 or len(bases), so a SliceList handed to
\* the engine has bases, counts and steps of equal length.
C2_AccumulatorsAligned ==
    /\ pc \in {"walk", "done"} =>
          /\ Len(counts) = Len(strides)
          /\ Len(counts) \in {0, Len(bases)}
    /\ result.kind = "SliceList" =>
          /\ Len(result.bases) = Len(result.counts)
          /\ Len(result.bases) = Len(result.strides)

\* C3 (as stated): a one-element selector holding a valid slice always
\* yields the Slice variant, with the count of clamped slice semantics.
C3_AlwaysSlice ==
    (Done /\ Len(arg) = 1 /\ ValidSlice(arg[1])) =>
        /\ result.kind = "Slice"
        /\ result.counts = <<Cardinality(SliceRows(arg[1]))>>

\* C3 (amended): a one-element selector holding a valid slice yields
\* Slice(start, count, step) with the count of clamped slice semantics when
\* that count is > 1, Array([start]) when it is 1, and Array([]) when it is 0.
C3_SliceOrArray ==
    (Done /\ Len(arg) = 1 /\ ValidSlice(arg[1])) =>
        result = SingleRun(SliceRows(arg[1]), StepOf(arg[1]))

C3_Witness ==
    /\ Done
    /\ nrows = 3
    /\ arg = <<SliceElem(None, None, IntV(-1))>>
    /\ result = rowmapping_from_slice(2, 3, -1)

\* Every element of the walked collection is an in-range integer or a valid
\* slice or range selecting no row.
C4_Shape ==
    \A j \in 1 .. Len(arg) :
        \/ InRange(arg[j])
        \/ ValidSlice(arg[j]) /\ SliceRows(arg[j]) = {}
        \/ arg[j].t = "range" /\ RangeRows(arg[j]) = {}

\* C4: a valid collection of only in-range integers and slices/ranges of
\* count 0 (the empty collection included) yields Array of exactly the
\* normalized integers in input order.
C4_ScalarsGiveArray ==
    (Done /\ rows.kind \in {"elem", "list", "generator"} /\ C4_Shape) =>
        LET ints == SelectSeq(arg, IsIntElem)
        IN  result = rowmapping_from_array(
                        [j \in 1 .. Len(ints) |-> RowOf(ints[j])])

C4_Witness ==
    /\ Done
    /\ C4_Shape
    /\ Len(arg) = 3
    /\ arg[1].t = "range"
    /\ arg[2] = IntElem(-1)
    /\ arg[3].t = "slice"
    /\ result = rowmapping_from_array(<<nrows - 1>>)

\* Elements of the walked collection that are slices/ranges of count > 1.
Progressions ==
    {j \in 1 .. Len(arg) : arg[j].t \in {"slice", "range"} /\ CountOf(arg[j]) > 1}

\* Elements of the walked collection that contribute at least one row.
Contributors == {j \in 1 .. Len(arg) : CountOf(arg[j]) >= 1}

\* C5 (as stated): SliceList is emitted only when at least two slice/range
\* elements have canonical count > 1.
C5_SliceListNeedsTwoRuns ==
    result.kind = "SliceList" => Cardinality(Progressions) >= 2

\* C5 (amended): SliceList is emitted only when at least one slice/range
\* element has canonical count > 1 and at least two elements contribute rows.
C5_SliceListNeedsRunAndTwo ==
    result.kind = "SliceList" =>
        /\ Cardinality(Progressions) >= 1
        /\ Cardinality(Contributors) >= 2

C5_Witness ==
    /\ Done
    /\ result.kind = "SliceList"
    /\ Cardinality(Progressions) = 1
    /\ Cardinality(Contributors) = 2
    /\ Len(arg) = 3

\* The selector kind the dispatch sees: a callable's result for a callable.
EffectiveKind == IF rows.kind = "function" THEN rows.ret ELSE rows.kind

\* C6: with N >= 1 rows, range(N-1, -1, -1) is accepted and selects all N
\* rows in reverse (start N-1, count N, step -1), while slice(N-1, -1, -1)
\* is accepted and selects no row.
C6_ReverseRangeVsSlice ==
    (Done /\ nrows >= 1) =>
        /\ arg = <<RangeElem(nrows - 1, -1, -1)>> =>
              result = IF nrows = 1 THEN rowmapping_from_array(<<0>>)
                       ELSE rowmapping_from_slice(nrows - 1, nrows, -1)
        /\ arg = <<SliceElem(IntV(nrows - 1), IntV(-1), IntV(-1))>> =>
              result = rowmapping_from_array(<<>>)

C6_Witness ==
    /\ Done
    /\ nrows = 3
    /\ arg = <<RangeElem(2, -1, -1)>>
    /\ result = rowmapping_from_slice(2, 3, -1)

\* C7 (as stated): range(N-1, -1, -1) is rejected with an invalid-value
\* error for any N, and a range is accepted only if every index it produces
\* lies in [0, nrows).
C7_ReverseRangeRejected ==
    (Done /\ Len(arg) = 1 /\ arg[1].t = "range") =>
        /\ arg[1] = RangeElem(nrows - 1, -1, -1) => result.kind = "ValueError"
        /\ ~IsError(result) => \A x \in RangeRows(arg[1]) : 0 <= x /\ x < nrows

\* C7 (amended): range(N-1, -1, -1) is accepted for any N; a range is
\* accepted exactly when every index it produces lies in [0, nrows), and is
\* then taken unclamped, otherwise it is rejected as a whole with an
\* invalid-value error.
C7_RangeAllOrNothing ==
    (Done /\ Len(arg) = 1 /\ arg[1].t = "range") =>
        /\ arg[1] = RangeElem(nrows - 1, -1, -1) => ~IsError(result)
        /\ IF \A x \in RangeRows(arg[1]) : 0 <= x /\ x < nrows
           THEN result = SingleRun(RangeRows(arg[1]), arg[1].c.v)
           ELSE result = Raise("ValueError", "invalid_range", 0)

C7_Witness ==
    /\ Done
    /\ nrows = 3
    /\ arg = <<RangeElem(0, 4, 1)>>
    /\ result = Raise("ValueError", "invalid_range", 0)

C9_SecondCallSame ==
    (Done /\ calls = 2) => result = previous

\* C9 (amended): for every selector kind other than a generator, a second
\* invocation with the same selector and nrows returns what the first did,
\* and no invocation changes the selector or nrows.
C9_Deterministic ==
    /\ [](rows.kind # "generator" => ((Done /\ calls = 2) => result = previous))
    /\ [][rows.kind # "generator" => (rows' = rows /\ nrows' = nrows)]_vars

C9_Witness ==
    /\ Done
    /\ calls = 2
    /\ rows.kind = "list"
    /\ Len(arg) = 3
    /\ result.kind = "SliceList"
    /\ result = previous

\* The error an element raises on its own, <<"", "">> when it is valid.
OwnError(e) ==
    IF e.t = "int"
    THEN IF InRange(e) THEN <<"", "">> ELSE <<"ValueError", "row_invalid">>
    ELSE IF e.t \in {"slice", "range"}
    THEN IF e.c.k = "int" /\ e.c.v = 0 THEN <<"ValueError", "step_zero">>
         ELSE IF ~IntegerBounds(e) THEN <<"ValueError", "not_integer">>
         ELSE IF e.t = "range" /\ \E x \in RangeRows(e) : x < 0 \/ x >= nrows
              THEN <<"ValueError", "invalid_range">>
              ELSE <<"", "">>
    ELSE <<"TypeError",
           IF from_generator THEN "generated_at_position"
           ELSE "element_of_rows_list">>

\* C10: when element j is the first invalid element of the collection, the
\* call raises the error of element j whatever follows it (zero step before
\* non-integer bounds), and no RowMapping constructor is called.
C10_FailFast ==
    Done =>
        \A j \in 1 .. Len(arg) :
            (/\ OwnError(arg[j]) # <<"", "">>
             /\ \A m \in 1 .. j - 1 : OwnError(arg[m]) = <<"", "">>)
            => result = Raise(OwnError(arg[j])[1], OwnError(arg[j])[2], j - 1)

C10_Witness ==
    /\ Done
    /\ Len(arg) = 3
    /\ arg[1] = SliceElem(None, None, None)
    /\ arg[2] = SliceElem(None, NonInt, IntV(0))
    /\ arg[3] = OtherElem
    /\ result = Raise("ValueError", "step_zero", 1)
    /\ Len(bases) = 1

\* The rows of the progression S in the order `step` walks them.
InOrder(S, step) ==
    [k \in 1 .. Cardinality(S) |-> FirstRow(S, step) + (k - 1) * step]

\* The row positions a valid element stands for, in order.
ElementRows(e) ==
    IF e.t = "int" THEN <<RowOf(e)>>
    ELSE IF e.t = "slice" THEN InOrder(SliceRows(e), StepOf(e))
    ELSE InOrder(RangeRows(e), e.c.v)

RECURSIVE ExpansionFrom(_)
\* Concatenation of the expansions of elements j .. Len(arg) of the collection.
ExpansionFrom(j) ==
    IF j > Len(arg) THEN <<>> ELSE ElementRows(arg[j]) \o ExpansionFrom(j + 1)

\* A SliceList is a sequence of (base, count, step) runs.
WellFormed(r) ==
    r.kind = "SliceList" =>
        Len(r.counts) = Len(r.bases) /\ Len(r.strides) = Len(r.bases)

RECURSIVE RunsFrom(_, _)
\* The rows runs j .. Len(r.bases) of a well-formed RowMapping enumerate.
RunsFrom(r, j) ==
    IF j > Len(r.bases) THEN <<>>
    ELSE [k \in 1 .. r.counts[j] |-> r.bases[j] + (k - 1) * r.strides[j]]
         \o RunsFrom(r, j + 1)

\* The row positions a RowMapping enumerates: an Array as given, a Slice as
\* start + k*step for k < count, a SliceList as its runs in order.
Positions(r) == IF r.kind = "Array" THEN r.bases ELSE RunsFrom(r, 1)

ValidCollection ==
    /\ EffectiveKind \in {"elem", "list", "generator"}
    /\ \A j \in 1 .. Len(arg) : OwnError(arg[j]) = <<"", "">>

\* C11: for every valid collection selector the emitted RowMapping
\* enumerates exactly the in-order concatenation of each element's own
\* expansion (a negative integer e standing for e + nrows), and every
\* enumerated position lies in [0, nrows).
C11_RowsPreserved ==
    (Done /\ ValidCollection) =>
        /\ result.kind \in {"Array", "Slice", "SliceList"}
        /\ WellFormed(result)
        /\ Positions(result) = ExpansionFrom(1)
        /\ \A k \in 1 .. Len(Positions(result)) :
              0 <= Positions(result)[k] /\ Positions(result)[k] < nrows

====
